---- MODULE Spec2Model ----
(***************************************************************************)
(* Super Bowl squares: the seeded generator (mulberry32), the Fisher-Yates *)
(* shuffle, the cyclic fill of the 100 squares, the form's submit handler, *)
(* the "Copy Share Link" handler and the URL-parameter loader.             *)
(*                                                                         *)
(* Representation.                                                         *)
(*   - A JS string is a sequence of one-character strings.                 *)
(*   - A JS number that holds an integer is a record                       *)
(*       [nan, neg, mag], mag the magnitude in base 65536, least           *)
(*       significant limb first, without a leading zero limb (0 is <<>>,   *)
(*       and -0 is not told from 0).  The model is exact for magnitudes    *)
(*       below 2^53, where a JS number holds every integer.                *)
(*   - A 32-bit pattern is a pair <<hi, lo>> of 16-bit halves; SignedNum   *)
(*       and UnsignedNum read it as the int32 / uint32 it stands for.      *)
(*   - A draw of the generator is the number k such that the JS value is   *)
(*       k / 4294967296 (exact in a double for every 32-bit k).            *)
(***************************************************************************)
EXTENDS Integers, Sequences, FiniteSets, TLC

-----------------------------------------------------------------------------
(* State *)

VARIABLES
    namesInput,    \* the value of the names textarea
    seedInput,     \* the value of the seed field
    colTeamInput,  \* the value of the column team field
    rowTeamInput,  \* the value of the row team field
    gridOutput,    \* the output section: hidden, info, table, and what the
                   \* share button's handler closes over
    alertMsg,      \* the alert of the latest submit event, "" when it passed
    rngs,          \* <<the closure the latest accepted submission created, as
                   \*   its shuffle left it>>, <<>> before any
    clipboard,     \* the query string of the link on the clipboard
    search,        \* the query string the page was opened with
    submitted,     \* history: <<names, seed, colTeam, rowTeam>> as parsed by
                   \* the submission whose grid is shown, names as parsed
    copied,        \* history: <<submitted, the squares shown>> when the link
                   \* on the clipboard was built
    loads,         \* history: how many links were opened
    again,         \* history: the grid shown replaced an earlier one
    gens,          \* generator instances: instance -> closure
    draws,         \* history: instance -> the values it returned, in order
    arr,           \* the array a shuffle is working on
    orig,          \* history: that array when the shuffle was called
    idx,           \* the loop index i of the shuffle
    lastJ,         \* history: <<i, j>> of the latest iteration
    ndraws         \* history: how many draws the shuffle made

pageVars == <<namesInput, seedInput, colTeamInput, rowTeamInput, gridOutput,
              alertMsg, rngs, clipboard, search, submitted, copied, loads,
              again>>

rngVars == <<gens, draws>>

shuffleVars == <<arr, orig, idx, lastJ, ndraws>>

vars == <<pageVars, rngVars, shuffleVars>>

\* The element of a one-element set.  {F(x) : x \in {e}} evaluates e once
\* and names its value x in F.
Only(S) == CHOOSE x \in S : TRUE

-----------------------------------------------------------------------------
(* Integers of any size, base 65536 *)

RECURSIVE Norm(_)
Norm(mag) ==
    IF mag = <<>> THEN <<>>
    ELSE IF mag[Len(mag)] = 0 THEN Norm(SubSeq(mag, 1, Len(mag) - 1))
    ELSE mag

NaN == [nan |-> TRUE, neg |-> FALSE, mag |-> <<>>]

MkNum(neg, mag) ==
    LET m == Norm(mag) IN [nan |-> FALSE, neg |-> (neg /\ m # <<>>), mag |-> m]

\* mag * m + c, for small m and c
RECURSIVE MulAdd(_, _, _)
MulAdd(mag, m, c) ==
    IF mag = <<>> THEN (IF c = 0 THEN <<>> ELSE <<c>>)
    ELSE LET v == Head(mag) * m + c
         IN  <<v % 65536>> \o MulAdd(Tail(mag), m, v \div 65536)

\* <<quotient, remainder>> of mag by a small d
RECURSIVE DivLimbs(_, _)
DivLimbs(mag, d) ==
    IF mag = <<>> THEN << <<>>, 0 >>
    ELSE LET hi == DivLimbs(Tail(mag), d)
             v  == hi[2] * 65536 + Head(mag)
         IN  << <<v \div d>> \o hi[1], v % d >>

-----------------------------------------------------------------------------
(* 32-bit patterns *)

RECURSIVE Xor16(_, _)
Xor16(a, b) ==
    IF a = 0 THEN b
    ELSE IF b = 0 THEN a
    ELSE ((a + b) % 2) + 2 * Xor16(a \div 2, b \div 2)

RECURSIVE Or16(_, _)
Or16(a, b) ==
    IF a = 0 THEN b
    ELSE IF b = 0 THEN a
    ELSE (IF a % 2 = 1 \/ b % 2 = 1 THEN 1 ELSE 0) + 2 * Or16(a \div 2, b \div 2)

Xor32(a, b) == <<Xor16(a[1], b[1]), Xor16(a[2], b[2])>>

Or32(a, b) == <<Or16(a[1], b[1]), Or16(a[2], b[2])>>

Add32(a, b) ==
    LET lo == a[2] + b[2]
    IN  <<(a[1] + b[1] + lo \div 65536) % 65536, lo % 65536>>

Neg32(w) ==
    <<(65536 - w[1] - (IF w[2] > 0 THEN 1 ELSE 0)) % 65536, (65536 - w[2]) % 65536>>

\* w >>> s, 0 < s < 16
Shr32(w, s) ==
    <<w[1] \div 2^s, (w[2] \div 2^s) + (w[1] % 2^s) * 2^(16 - s)>>

\* the 32-bit product of two 16-bit numbers, by bytes
Mul16(a, b) ==
    LET a1 == a \div 256  a0 == a % 256
        b1 == b \div 256  b0 == b % 256
        mid == a1 * b0 + a0 * b1
        low == a0 * b0 + (mid % 256) * 256
    IN  <<(a1 * b1 + mid \div 256 + low \div 65536) % 65536, low % 65536>>

\* Math.imul
Imul(a, b) ==
    LET ll == Mul16(a[2], b[2])
    IN  <<(ll[1] + Mul16(a[1], b[2])[2] + Mul16(a[2], b[1])[2]) % 65536, ll[2]>>

\* x | 0 (ToInt32): NaN gives 0, an integer its low 32 bits in two's complement
ToInt32(n) ==
    IF n.nan THEN <<0, 0>>
    ELSE LET lo == IF Len(n.mag) >= 1 THEN n.mag[1] ELSE 0
             hi == IF Len(n.mag) >= 2 THEN n.mag[2] ELSE 0
         IN  IF n.neg THEN Neg32(<<hi, lo>>) ELSE <<hi, lo>>

UnsignedNum(w) == MkNum(FALSE, <<w[2], w[1]>>)

SignedNum(w) ==
    IF w[1] >= 32768
    THEN LET m == Neg32(w) IN MkNum(TRUE, <<m[2], m[1]>>)
    ELSE MkNum(FALSE, <<w[2], w[1]>>)

-----------------------------------------------------------------------------
(* mulberry32 *)

\* 0x6d2b79f5
Increment == <<27947, 31221>>

\* as mulberry32, one generator for the page: the closure of the earlier
\* submission is handed out again
mulberry32Shared(seed) == IF rngs # <<>> THEN rngs[1] ELSE [seed |-> seed]

\* mulberry32(seed): a new closure, whose captured variable is its own seed
mulberry32(seed) == [seed |-> seed]

\* as rngCall, the value read as a signed integer (no ">>> 0")
rngCallSigned(rng) ==
    Only({ Only({ Only({
        [rng   |-> [seed |-> SignedNum(s1)],
         value |-> SignedNum(Xor32(t2, Shr32(t2, 14)))]
      : t2 \in {Xor32(Add32(t1, Imul(Xor32(t1, Shr32(t1, 7)), Or32(<<0, 61>>, t1))), t1)} })
      : t1 \in {Imul(Xor32(s1, Shr32(s1, 15)), Or32(<<0, 1>>, s1))} })
      : s1 \in {Add32(ToInt32(rng.seed), Increment)} })

\* One call of the closure: the closure after it and the value returned,
\* value / 4294967296 being the JS number.
\*   s1: seed |= 0; seed = (seed + 0x6d2b79f5) | 0
\*   t1: t = Math.imul(seed ^ (seed >>> 15), 1 | seed)
\*   t2: t = (t + Math.imul(t ^ (t >>> 7), 61 | t)) ^ t
\*   value: (t ^ (t >>> 14)) >>> 0
rngCall(rng) ==
    Only({ Only({ Only({
        [rng   |-> [seed |-> SignedNum(s1)],
         value |-> UnsignedNum(Xor32(t2, Shr32(t2, 14)))]
      : t2 \in {Xor32(Add32(t1, Imul(Xor32(t1, Shr32(t1, 7)), Or32(<<0, 61>>, t1))), t1)} })
      : t1 \in {Imul(Xor32(s1, Shr32(s1, 15)), Or32(<<0, 1>>, s1))} })
      : s1 \in {Add32(ToInt32(rng.seed), Increment)} })

-----------------------------------------------------------------------------
(* Fisher-Yates shuffle.  Arrays are sequences: JS index i is position i+1. *)

\* what reading a missing array element gives
Undefined == <<"undefined">>

\* Math.floor(value / 4294967296 * m), for a small integer m >= 1
FloorMul(value, m) ==
    LET p  == MulAdd(value.mag, m, 0)
        q  == IF Len(p) >= 3 THEN p[3] ELSE 0
        fr == (Len(p) >= 1 /\ p[1] # 0) \/ (Len(p) >= 2 /\ p[2] # 0)
    IN  IF value.neg THEN (IF fr THEN -q - 1 ELSE -q) ELSE q

ArrayGet(array, i) ==
    IF i >= 0 /\ i < Len(array) THEN array[i + 1] ELSE Undefined

\* array[i] = v: extends the array with holes when i is past its end, and
\* leaves the elements alone when i is negative (a property, not an element)
ArraySet(array, i, v) ==
    IF i < 0 THEN array
    ELSE [k \in 1..(IF i + 1 > Len(array) THEN i + 1 ELSE Len(array)) |->
            IF k = i + 1 THEN v ELSE ArrayGet(array, k - 1)]

\* as ShuffleIndex, the draw scaled by i + 2
ShuffleIndexWide(value, i) == FloorMul(value, i + 2)

\* the j of one iteration
ShuffleIndex(value, i) == FloorMul(value, i + 1)

\* [array[i], array[j]] = [array[j], array[i]]
Swap(array, i, j) ==
    Only({ ArraySet(ArraySet(array, i, old[2]), j, old[1])
           : old \in {<<ArrayGet(array, i), ArrayGet(array, j)>>} })

\* one iteration of the loop, at index st.i
ShuffleStep(st) ==
    Only({ [array |-> Swap(st.array, st.i, ShuffleIndex(d.value, st.i)),
            rng   |-> d.rng,
            i     |-> st.i - 1]
           : d \in {rngCall(st.rng)} })

\* the iterations from the one at st.i down to the one at index last
RECURSIVE ShuffleLoop(_, _)
ShuffleLoop(st, last) ==
    IF st.i < last THEN st
    ELSE IF st.i = last THEN ShuffleStep(st)
    ELSE Only({ ShuffleLoop(half, last)
                : half \in {ShuffleLoop(st, (st.i + last + 1) \div 2)} })

\* shuffleArray(array, rng): the array and the closure when it returns
shuffleArray(array, rng) ==
    ShuffleLoop([array |-> array, rng |-> rng, i |-> Len(array) - 1], 1)

-----------------------------------------------------------------------------
(* Strings *)

Whitespace == {" ", "\t", "\n", "\r"}

Digits == {"0", "1", "2", "3", "4", "5", "6", "7", "8", "9"}

DigitChars == <<"0", "1", "2", "3", "4", "5", "6", "7", "8", "9">>

DigitVal(c) == (CHOOSE k \in 1..10 : DigitChars[k] = c) - 1

RECURSIVE TrimStart(_)
TrimStart(s) ==
    IF s # <<>> /\ Head(s) \in Whitespace THEN TrimStart(Tail(s)) ELSE s

RECURSIVE TrimEnd(_)
TrimEnd(s) ==
    IF s # <<>> /\ s[Len(s)] \in Whitespace
    THEN TrimEnd(SubSeq(s, 1, Len(s) - 1)) ELSE s

\* String.prototype.trim
Trim(s) == TrimEnd(TrimStart(s))

\* the first position of character c in s, 0 when there is none
IndexOf(s, c) ==
    IF \E k \in 1..Len(s) : s[k] = c
    THEN CHOOSE k \in 1..Len(s) : s[k] = c /\ \A m \in 1..(k - 1) : s[m] # c
    ELSE 0

\* the concatenation of the strings list[lo..hi]
RECURSIVE Concat(_, _, _)
Concat(list, lo, hi) ==
    IF lo > hi THEN <<>>
    ELSE IF lo = hi THEN list[lo]
    ELSE LET mid == (lo + hi) \div 2
         IN  Concat(list, lo, mid) \o Concat(list, mid + 1, hi)

\* String.prototype.split on a one-character separator: the pieces between
\* the separators, one more than there are separators
Split(s, c) ==
    LET at == SelectSeq([k \in 1..Len(s) |-> k], LAMBDA k : s[k] = c)
    IN  [p \in 1..(Len(at) + 1) |->
            SubSeq(s,
                   (IF p = 1 THEN 0 ELSE at[p - 1]) + 1,
                   (IF p = Len(at) + 1 THEN Len(s) + 1 ELSE at[p]) - 1)]

\* Array.prototype.join on a one-character separator
Join(list, c) ==
    Concat([k \in 1..Len(list) |-> IF k = 1 THEN list[k] ELSE <<c>> \o list[k]],
           1, Len(list))

\* parseNames
parseNames(text) ==
    LET lines == Split(text, "\n")
    IN  SelectSeq([k \in 1..Len(lines) |-> Trim(lines[k])], LAMBDA s : Len(s) > 0)

RECURSIVE ParseDigits(_, _)
ParseDigits(s, acc) ==
    IF s = <<>> \/ Head(s) \notin Digits THEN acc
    ELSE ParseDigits(Tail(s), MulAdd(acc, 10, DigitVal(Head(s))))

\* parseInt(s, 10)
parseInt(s) ==
    LET t    == TrimStart(s)
        neg  == t # <<>> /\ Head(t) = "-"
        body == IF t # <<>> /\ Head(t) \in {"-", "+"} THEN Tail(t) ELSE t
    IN  IF body = <<>> \/ Head(body) \notin Digits THEN NaN
        ELSE MkNum(neg, ParseDigits(body, <<>>))

RECURSIVE ToDigits(_)
ToDigits(mag) ==
    IF mag = <<>> THEN <<>>
    ELSE LET qr == DivLimbs(mag, 10)
         IN  ToDigits(Norm(qr[1])) \o <<DigitChars[qr[2] + 1]>>

\* Number.prototype.toString, of an integer below 10^21
numToString(n) ==
    IF n.nan THEN <<"N", "a", "N">>
    ELSE IF n.mag = <<>> THEN <<"0">>
    ELSE (IF n.neg THEN <<"-">> ELSE <<>>) \o ToDigits(n.mag)

\* isNaN
isNaN(n) == n.nan

-----------------------------------------------------------------------------
(* The grid *)

\* the number of squares, and the side of the table
GridSize == 100

Side == 10

\* as fillSquares, names[i] without the cycling
fillSquaresNoCycle(names) ==
    [k \in 1..GridSize |-> ArrayGet(names, k - 1)]

\* as fillSquares, cycling over one name too few
fillSquaresSkipLast(names) ==
    [k \in 1..GridSize |->
        IF Len(names) <= 1 THEN Undefined
        ELSE ArrayGet(names, (k - 1) % (Len(names) - 1))]

\* fillSquares
fillSquares(names) ==
    [k \in 1..GridSize |->
        IF Len(names) = 0 THEN Undefined ELSE ArrayGet(names, (k - 1) % Len(names))]

\* buildTable: <<column label, row label, the ten rows of ten cells>>; a
\* label is <<>> when the table has none.  Cell (row, c) reads
\* squares[row * 10 + c].
buildTable(squares, colTeam, rowTeam) ==
    << colTeam,
       rowTeam,
       [row \in 1..Side |-> [c \in 1..Side |->
            ArrayGet(squares, (row - 1) * 10 + (c - 1))]] >>

\* the line about the distribution of the names
gridInfo(n) ==
    IF n = 100 THEN <<"once", n, 1, 1>>
    ELSE LET perName == 100 \div n
             extra   == 100 % n
         IN  IF extra = 0 THEN <<"each", n, perName, perName>>
             ELSE <<"some", n, perName, perName + 1>>

\* as Validate, the seed not looked at
ValidateNoSeed(names, seed) ==
    IF Len(names) = 0 THEN "Please enter at least one name."
    ELSE IF Len(names) > 100 THEN "Too many names"
    ELSE ""

\* the alert the validation raises, "" when the inputs pass
Validate(names, seed) ==
    IF Len(names) = 0 THEN "Please enter at least one name."
    ELSE IF Len(names) > 100 THEN "Too many names"
    ELSE IF isNaN(seed) THEN "Please enter a valid number for the random seed."
    ELSE ""

\* as Generate, the names cycled first and the 100 squares shuffled
GenerateFillFirst(names, seed) ==
    Only({ [names |-> names, rng |-> sh.rng, filled |-> sh.array]
           : sh \in {shuffleArray(fillSquares(names), mulberry32(seed))} })

\* the grid of the names and the seed: the shuffled names, cycled
Generate(names, seed) ==
    Only({ [names |-> sh.array, rng |-> sh.rng, filled |-> fillSquares(sh.array)]
           : sh \in {shuffleArray(names, mulberry32(seed))} })

\* The submit handler on the four field values.  names is the array the
\* handler parsed, as the shuffle left it: the share button's handler
\* closes over that array.
Handle(namesText, seedText, colText, rowText) ==
    Only({
        IF Validate(in[1], in[2]) # ""
        THEN [ok |-> FALSE, alert |-> Validate(in[1], in[2]), rng |-> <<>>,
              inputs |-> <<>>,
              output |-> [hidden |-> TRUE, info |-> <<>>, table |-> <<>>,
                          share |-> <<>>]]
        ELSE Only({
             [ok |-> TRUE, alert |-> "", rng |-> <<g.rng>>,
              inputs |-> in,
              output |-> [hidden |-> FALSE,
                          info   |-> gridInfo(Len(g.names)),
                          table  |-> buildTable(g.filled, in[3], in[4]),
                          share  |-> <<g.names, in[2], in[3], in[4]>>]]
             : g \in {Generate(in[1], in[2])} })
      : in \in {<<parseNames(namesText), parseInt(seedText),
                  Trim(colText), Trim(rowText)>>} })

-----------------------------------------------------------------------------
(* URLSearchParams: application/x-www-form-urlencoded *)

\* the characters the serializer escapes, with their escapes; a space
\* becomes "+", every other character of the model is left as it is
Escaped == {",", "\n", "+", "&", "=", "%", "\t", "\r"}

PercentCode(c) ==
    CASE c = ","  -> <<"%", "2", "C">>
      [] c = "\n" -> <<"%", "0", "A">>
      [] c = "+"  -> <<"%", "2", "B">>
      [] c = "&"  -> <<"%", "2", "6">>
      [] c = "="  -> <<"%", "3", "D">>
      [] c = "%"  -> <<"%", "2", "5">>
      [] c = "\t" -> <<"%", "0", "9">>
      [] c = "\r" -> <<"%", "0", "D">>

UrlEncode(s) ==
    Concat([k \in 1..Len(s) |->
                IF s[k] = " " THEN <<"+">>
                ELSE IF s[k] \in Escaped THEN PercentCode(s[k])
                ELSE <<s[k]>>],
           1, Len(s))

\* whether an escape starts at position k of s
EscapeAt(s, k) ==
    /\ k >= 1 /\ k + 2 <= Len(s)
    /\ s[k] = "%"
    /\ \E c \in Escaped : PercentCode(c) = SubSeq(s, k, k + 2)

\* "+" is a space and an escape its character.  The two characters after
\* the "%" of an escape are never a "%", so the escapes do not overlap.
UrlDecode(s) ==
    Concat([k \in 1..Len(s) |->
                IF EscapeAt(s, k)
                THEN <<CHOOSE c \in Escaped : PercentCode(c) = SubSeq(s, k, k + 2)>>
                ELSE IF EscapeAt(s, k - 1) \/ EscapeAt(s, k - 2) THEN <<>>
                ELSE IF s[k] = "+" THEN <<" ">>
                ELSE <<s[k]>>],
           1, Len(s))

\* URLSearchParams.toString of a list of <<name, value>>
RECURSIVE ParamsToString(_)
ParamsToString(list) ==
    IF list = <<>> THEN <<>>
    ELSE UrlEncode(list[1][1]) \o <<"=">> \o UrlEncode(list[1][2])
         \o (IF Len(list) > 1 THEN <<"&">> \o ParamsToString(Tail(list)) ELSE <<>>)

\* one "name=value" piece
ParsePair(piece) ==
    LET k == IndexOf(piece, "=")
    IN  IF k = 0 THEN <<UrlDecode(piece), <<>>>>
        ELSE <<UrlDecode(SubSeq(piece, 1, k - 1)),
               UrlDecode(SubSeq(piece, k + 1, Len(piece)))>>

\* new URLSearchParams(query), query being location.search without its "?"
ParseParams(query) ==
    LET pieces == SelectSeq(Split(query, "&"), LAMBDA x : x # <<>>)
    IN  [k \in 1..Len(pieces) |-> ParsePair(pieces[k])]

ParamsHas(params, name) == \E k \in 1..Len(params) : params[k][1] = name

ParamsGet(params, name) ==
    params[CHOOSE k \in 1..Len(params) :
              params[k][1] = name /\ \A m \in 1..(k - 1) : params[m][1] # name][2]

KeyNames == <<"n", "a", "m", "e", "s">>

KeySeed == <<"s", "e", "e", "d">>

KeyColTeam == <<"c", "o", "l", "T", "e", "a", "m">>

KeyRowTeam == <<"r", "o", "w", "T", "e", "a", "m">>

\* The share button's handler, on what it closes over: the query string of
\* the link it writes to the clipboard.
ShareQuery(names, seed, colTeam, rowTeam) ==
    ParamsToString(
        << <<KeyNames, Join(names, ",")>>, <<KeySeed, numToString(seed)>> >>
        \o (IF colTeam # <<>> THEN << <<KeyColTeam, colTeam>> >> ELSE <<>>)
        \o (IF rowTeam # <<>> THEN << <<KeyRowTeam, rowTeam>> >> ELSE <<>>))

\* The loader's writes to the four fields of a page just opened at query;
\* blank is the value the fields have before it.
LoadFields(query, blank) ==
    Only({
        [names   |-> IF ParamsHas(params, KeyNames)
                     THEN Join(Split(ParamsGet(params, KeyNames), ","), "\n")
                     ELSE blank.names,
         seed    |-> IF ParamsHas(params, KeySeed)
                     THEN ParamsGet(params, KeySeed) ELSE blank.seed,
         colTeam |-> IF ParamsHas(params, KeyColTeam)
                     THEN ParamsGet(params, KeyColTeam) ELSE blank.colTeam,
         rowTeam |-> IF ParamsHas(params, KeyRowTeam)
                     THEN ParamsGet(params, KeyRowTeam) ELSE blank.rowTeam,
         submit  |-> ParamsHas(params, KeyNames)]
      : params \in {ParseParams(query)} })

-----------------------------------------------------------------------------
(* Bounds and inputs *)

MaxTyped == 2

MaxNames == 3

MaxLoads == 2

MaxDraws == 3

MaxLen == 3

Letters == <<"a", "b", "c", "d", "e", "f", "g", "h", "i", "j", "k">>

\* n names, different from each other for n <= 110, one per line
BigText(n) ==
    Join([k \in 1..n |-> <<Letters[((k - 1) \div 10) + 1], Letters[((k - 1) % 10) + 1]>>],
         "\n")

Lists(S, n) == UNION {[1..k -> S] : k \in 0..n}

TypedTexts ==
    {Join(l, "\n") : l \in Lists({<<"a">>, <<"b">>}, MaxTyped)}
        \cup {BigText(GridSize + 1)}

TypedSeeds == {<<>>, <<"0">>, <<"1">>, <<"x">>}

TypedTeams == {<<>>, <<" ", "K">>}

LinkTexts ==
    {Join(l, "\n") : l \in Lists({<<"a">>, <<"b">>, <<"c", ",", "d">>}, MaxNames)}
        \cup {<<" ", "b", " ", "\n", "\n", "a", "\n">>, <<",">>,
              BigText(7), BigText(GridSize), BigText(GridSize + 1)}

\* 4294967297 is 2^32 + 1: the generator of seed 1
LinkSeeds ==
    {<<"0">>, <<"-", "7">>, <<"1", "2", "p", "x">>,
     <<"4", "2", "9", "4", "9", "6", "7", "2", "9", "7">>}

\* <<column team, row team>>
LinkTeams == {<<<<>>, <<>>>>, <<<<"K", "+", " ", "C">>, <<>>>>, <<<<>>, <<"R", "&">>>>}

\* seeds of either sign: 0, 1, 2, 2^31 - 1, 2^31, 2^32 - 1, 2^32, 2^32 + 1
RngSeeds ==
    {MkNum(neg, mag) : neg \in BOOLEAN,
                       mag \in {<<>>, <<1>>, <<2>>, <<65535, 32767>>, <<0, 32768>>,
                                <<65535, 65535>>, <<0, 0, 1>>, <<1, 0, 1>>}}

\* draws k / 4294967296: k = 0, 1, 2^32/3 rounded down and up, 2^31 - 1, 2^31,
\* 2^32 - 1
DrawValues ==
    {UnsignedNum(w) : w \in {<<0, 0>>, <<0, 1>>, <<21845, 21845>>, <<21845, 21846>>,
                             <<32767, 65535>>, <<32768, 0>>, <<65535, 65535>>}}

Elements == {<<"a">>, <<"b">>, <<"c">>}

-----------------------------------------------------------------------------
(* The page *)

\* the fields of a page opened without parameters
Blank == [names |-> <<>>, seed |-> <<>>, colTeam |-> <<>>, rowTeam |-> <<>>]

NoOutput == [hidden |-> TRUE, info |-> <<>>, table |-> <<>>, share |-> <<>>]

\* the squares handed to buildTable, read back from the table's cells
Squares(out) ==
    IF out.table = <<>> THEN <<>>
    ELSE [k \in 1..(Side * Side) |->
            out.table[3][((k - 1) \div Side) + 1][((k - 1) % Side) + 1]]

PageIdle ==
    /\ namesInput = <<>> /\ seedInput = <<>>
    /\ colTeamInput = <<>> /\ rowTeamInput = <<>>
    /\ gridOutput = NoOutput
    /\ alertMsg = ""
    /\ rngs = <<>>
    /\ clipboard = <<>>
    /\ search = <<>>
    /\ submitted = <<>>
    /\ copied = <<>>
    /\ loads = 0
    /\ again = FALSE

RngIdle == gens = <<>> /\ draws = <<>>

ShuffleIdle ==
    arr = <<>> /\ orig = <<>> /\ idx = 0 /\ lastJ = <<>> /\ ndraws = 0

TypeNames(text) ==
    /\ namesInput' = text
    /\ UNCHANGED <<seedInput, colTeamInput, rowTeamInput, gridOutput, alertMsg,
                   rngs, clipboard, search, submitted, copied, loads, again>>
    /\ UNCHANGED <<rngVars, shuffleVars>>

TypeSeed(text) ==
    /\ seedInput' = text
    /\ UNCHANGED <<namesInput, colTeamInput, rowTeamInput, gridOutput, alertMsg,
                   rngs, clipboard, search, submitted, copied, loads, again>>
    /\ UNCHANGED <<rngVars, shuffleVars>>

TypeColTeam(text) ==
    /\ colTeamInput' = text
    /\ UNCHANGED <<namesInput, seedInput, rowTeamInput, gridOutput, alertMsg,
                   rngs, clipboard, search, submitted, copied, loads, again>>
    /\ UNCHANGED <<rngVars, shuffleVars>>

TypeRowTeam(text) ==
    /\ rowTeamInput' = text
    /\ UNCHANGED <<namesInput, seedInput, colTeamInput, gridOutput, alertMsg,
                   rngs, clipboard, search, submitted, copied, loads, again>>
    /\ UNCHANGED <<rngVars, shuffleVars>>

\* the submit event of the form
Submit ==
    /\ \E h \in {Handle(namesInput, seedInput, colTeamInput, rowTeamInput)} :
        /\ alertMsg' = h.alert
        /\ gridOutput' = IF h.ok THEN h.output ELSE gridOutput
        /\ rngs' = IF h.ok THEN h.rng ELSE rngs
        /\ submitted' = IF h.ok THEN h.inputs ELSE submitted
        /\ again' = IF h.ok THEN ~gridOutput.hidden ELSE again
    /\ UNCHANGED <<namesInput, seedInput, colTeamInput, rowTeamInput,
                   clipboard, search, copied, loads>>
    /\ UNCHANGED <<rngVars, shuffleVars>>

\* a click on "Copy Share Link"
ShareClick ==
    /\ ~gridOutput.hidden
    /\ clipboard' = ShareQuery(gridOutput.share[1], gridOutput.share[2],
                               gridOutput.share[3], gridOutput.share[4])
    /\ copied' = <<submitted, Squares(gridOutput)>>
    /\ UNCHANGED <<namesInput, seedInput, colTeamInput, rowTeamInput, gridOutput,
                   alertMsg, rngs, search, submitted, loads, again>>
    /\ UNCHANGED <<rngVars, shuffleVars>>

\* the link on the clipboard is opened: a new page, the loader fills the
\* fields from the parameters and dispatches the submit event
OpenLink ==
    /\ clipboard # <<>>
    /\ loads < MaxLoads
    /\ \E f \in {LoadFields(clipboard, Blank)} :
       \E h \in {Handle(f.names, f.seed, f.colTeam, f.rowTeam)} :
           /\ search' = clipboard
           /\ namesInput' = f.names
           /\ seedInput' = f.seed
           /\ colTeamInput' = f.colTeam
           /\ rowTeamInput' = f.rowTeam
           /\ alertMsg' = IF f.submit THEN h.alert ELSE ""
           /\ gridOutput' = IF f.submit /\ h.ok THEN h.output ELSE NoOutput
           /\ rngs' = IF f.submit /\ h.ok THEN h.rng ELSE <<>>
           /\ submitted' = IF f.submit /\ h.ok THEN h.inputs ELSE <<>>
    /\ loads' = loads + 1
    /\ again' = FALSE
    /\ UNCHANGED <<clipboard, copied>>
    /\ UNCHANGED <<rngVars, shuffleVars>>

\* A page opened without parameters, its form typed into and submitted.
Init == PageIdle /\ RngIdle /\ ShuffleIdle

Next ==
    \/ \E text \in TypedTexts : TypeNames(text)
    \/ \E text \in TypedSeeds : TypeSeed(text)
    \/ \E text \in TypedTeams : TypeColTeam(text)
    \/ \E text \in TypedTeams : TypeRowTeam(text)
    \/ Submit

Spec == Init /\ [][Next]_vars

\* A filled form, submitted, its link copied and opened.
InitLink ==
    /\ namesInput \in LinkTexts
    /\ seedInput \in LinkSeeds
    /\ \E teams \in LinkTeams : colTeamInput = teams[1] /\ rowTeamInput = teams[2]
    /\ gridOutput = NoOutput
    /\ alertMsg = ""
    /\ rngs = <<>>
    /\ clipboard = <<>>
    /\ search = <<>>
    /\ submitted = <<>>
    /\ copied = <<>>
    /\ loads = 0
    /\ again = FALSE
    /\ RngIdle /\ ShuffleIdle

NextLink == Submit \/ ShareClick \/ OpenLink

SpecLink == InitLink /\ [][NextLink]_vars

-----------------------------------------------------------------------------
(* Two generators of one seed, called in any order *)

\* as rngNext, the instances sharing one seed variable
rngNextShared(gs, i) ==
    LET r == rngCall(gs[1])
    IN  [gens |-> [k \in 1..Len(gs) |-> r.rng], value |-> r.value]

\* instance i of gs is called: the instances after the call, and the value
rngNext(gs, i) ==
    LET r == rngCall(gs[i])
    IN  [gens |-> [gs EXCEPT ![i] = r.rng], value |-> r.value]

InitRng ==
    /\ \E seed \in RngSeeds : gens = <<mulberry32(seed), mulberry32(seed)>>
    /\ draws = <<<<>>, <<>>>>
    /\ PageIdle /\ ShuffleIdle

Draw(i) ==
    /\ Len(draws[i]) < MaxDraws
    /\ LET r == rngNext(gens, i)
       IN  /\ gens' = r.gens
           /\ draws' = [draws EXCEPT ![i] = Append(@, r.value)]
    /\ UNCHANGED <<pageVars, shuffleVars>>

NextRng == \E i \in 1..2 : Draw(i)

SpecRng == InitRng /\ [][NextRng]_vars

-----------------------------------------------------------------------------
(* shuffleArray, one iteration at a time, on the draws of any generator *)

InitShuffle ==
    /\ orig \in UNION {[1..n -> Elements] : n \in 1..MaxLen}
    /\ arr = orig
    /\ idx = Len(orig) - 1
    /\ lastJ = <<>>
    /\ ndraws = 0
    /\ PageIdle /\ RngIdle

Iterate(value) ==
    /\ idx > 0
    /\ arr' = Swap(arr, idx, ShuffleIndex(value, idx))
    /\ lastJ' = <<idx, ShuffleIndex(value, idx)>>
    /\ idx' = idx - 1
    /\ ndraws' = ndraws + 1
    /\ UNCHANGED <<orig, pageVars, rngVars>>

NextShuffle == \E value \in DrawValues : Iterate(value)

SpecShuffle == InitShuffle /\ [][NextShuffle]_vars

-----------------------------------------------------------------------------
(* Claims on the generator: SpecRng *)

Min(a, b) == IF a < b THEN a ELSE b

\* n is an integer of the signed 32-bit range
IsInt32(n) ==
    /\ ~n.nan
    /\ Len(n.mag) <= 2
    /\ Len(n.mag) = 2 => (n.mag[2] < 32768 \/ (n.neg /\ n.mag = <<0, 32768>>))

\* value / 4294967296 is in [0, 1)
InUnit(value) == ~value.nan /\ ~value.neg /\ Len(value.mag) <= 2

C7_SameDraws ==
    /\ \A k \in 1..Min(Len(draws[1]), Len(draws[2])) : draws[1][k] = draws[2][k]
    /\ Len(draws[1]) = Len(draws[2]) => gens[1] = gens[2]

C7_Isolated ==
    \A i \in 1..2 : Len(draws'[i]) = Len(draws[i]) => gens'[i] = gens[i]

\* C7: two generators created with the same seed return the same values, the
\* k-th draw of one being the k-th draw of the other, however their calls
\* interleave; a call on one leaves the state of the other as it was.
C7_Determinism == [](C7_SameDraws) /\ [][C7_Isolated]_vars

C7_Witness ==
    /\ Len(draws[1]) >= 3 /\ Len(draws[2]) = 2
    /\ draws[1][1] # draws[1][2]

\* what a call on instance i made of it
C10_Call(i) ==
    LET old == ToInt32(gens[i].seed)
        new == gens'[i].seed
        lo  == old[2] + 31221
    IN  /\ IsInt32(new)
        /\ ToInt32(new) = <<(old[1] + 27947 + lo \div 65536) % 65536, lo % 65536>>
        /\ InUnit(draws'[i][Len(draws'[i])])

\* C10: whatever the seed (negative, zero, beyond 32 bits), a draw leaves the
\* state a signed 32-bit integer, the seed brought into 32 bits plus
\* 0x6d2b79f5 modulo 2^32, and returns k / 2^32 with 0 <= k < 2^32.
C10_Range ==
    [][\A i \in 1..2 : Len(draws'[i]) > Len(draws[i]) => C10_Call(i)]_vars

C10_Witness ==
    /\ Len(draws[1]) >= 2
    /\ gens[1].seed.neg
    /\ draws[1][1].mag # <<>>

-----------------------------------------------------------------------------
(* Claims on the shuffle: SpecShuffle *)

Count(v, seq) == Cardinality({k \in 1..Len(seq) : seq[k] = v})

Range(seq) == {seq[k] : k \in 1..Len(seq)}

C9_State ==
    /\ Len(arr) = Len(orig)
    /\ \A e \in Range(orig) \cup Range(arr) : Count(e, arr) = Count(e, orig)
    /\ idx >= 0
    /\ ndraws = Len(orig) - 1 - idx
    /\ lastJ # <<>> => lastJ[1] = idx + 1 /\ lastJ[2] >= 0 /\ lastJ[2] <= lastJ[1]
    /\ Len(orig) = 1 => ndraws = 0 /\ arr = orig

C9_Iteration ==
    idx' # idx =>
        /\ idx >= 1 /\ idx' = idx - 1
        /\ lastJ'[1] = idx
        /\ lastJ'[2] \in 0..idx
        /\ arr' = [arr EXCEPT ![idx + 1] = arr[lastJ'[2] + 1],
                              ![lastJ'[2] + 1] = arr[idx + 1]]

\* C9: on draws in [0, 1) shuffleArray runs i from n-1 down to 1, each time
\* with 0 <= j <= i, swaps positions i and j, and keeps the length and the
\* elements of the array; an array of one element is left alone, no draw made.
C9_Permutation == [](C9_State) /\ [][C9_Iteration]_vars

C9_Witness ==
    /\ Len(orig) = 3 /\ idx = 0 /\ ndraws = 2
    /\ arr # orig
    /\ lastJ = <<1, 1>>

-----------------------------------------------------------------------------
(* Claims on a page typed into and submitted: Spec *)

Shown == ~gridOutput.hidden

\* the form as a submission would parse it
FormValid ==
    /\ Len(parseNames(namesInput)) >= 1
    /\ Len(parseNames(namesInput)) <= GridSize
    /\ ~isNaN(parseInt(seedInput))

\* C6: a submission of no name, of more than 100 names or of a seed that is
\* no number creates no generator, makes no draw and leaves the output
\* section as it was; the core runs only on 1..100 names and a numeric seed.
C6_Rejection ==
    [][/\ ~FormValid => (gridOutput' = gridOutput /\ rngs' = rngs)
       /\ (gridOutput' # gridOutput \/ rngs' # rngs) => FormValid]_vars

C6_Witness ==
    /\ Shown
    /\ alertMsg = "Too many names"
    /\ Len(parseNames(namesInput)) > GridSize

\* the squares of the first submission of a page just opened
FirstGrid(names, seed) == fillSquares(shuffleArray(names, [seed |-> seed]).array)

\* C8: whatever was submitted before, the grid shown for (names, seed) is the
\* grid a page just opened shows for them.
C8_NoRetainedState ==
    Shown => Squares(gridOutput) = FirstGrid(submitted[1], submitted[2])

C8_Witness ==
    /\ Shown /\ again
    /\ Len(submitted[1]) >= 2
    /\ gridOutput.share[1] # submitted[1]
    /\ alertMsg = ""

-----------------------------------------------------------------------------
(* Claims on the grid and on the link: SpecLink *)

Floor100(n) == GridSize \div n

Ceil100(n) == (GridSize \div n) + (IF GridSize % n = 0 THEN 0 ELSE 1)

\* C3 as claimed: every name of the list appears floor(100/n) or
\* ceil(100/n) times, 100 mod n of the names the higher number of times.
C3_Claim ==
    Shown =>
        LET names == submitted[1]
            n     == Len(names)
            sq    == Squares(gridOutput)
        IN  /\ \A v \in Range(names) : Count(v, sq) \in {Floor100(n), Ceil100(n)}
            /\ GridSize % n # 0 =>
                /\ Cardinality({k \in 1..n : Count(names[k], sq) = Ceil100(n)})
                        = GridSize % n
                /\ Cardinality({k \in 1..n : Count(names[k], sq) = Floor100(n)})
                        = n - (GridSize % n)
            /\ n = GridSize => \A v \in Range(names) : Count(v, sq) = 1

RECURSIVE Sum(_, _)
Sum(F(_), S) ==
    IF S = {} THEN 0
    ELSE LET x == CHOOSE y \in S : TRUE IN F(x) + Sum(F, S \ {x})

\* C3 as amended: a name listed m times appears m * floor(100/n) times and
\* at most m times more, floor(100/n) or ceil(100/n) times when it is
\* listed once, and these extra appearances number 100 mod n over the names.
C3_EvenDistribution ==
    Shown =>
        LET names == submitted[1]
            n     == Len(names)
            sq    == Squares(gridOutput)
            Extra(v) == Count(v, sq) - Count(v, names) * Floor100(n)
        IN  /\ Len(sq) = GridSize
            /\ \A v \in Range(names) :
                /\ Extra(v) \in 0..Count(v, names)
                /\ Count(v, names) = 1 => Count(v, sq) \in {Floor100(n), Ceil100(n)}
            /\ Sum(Extra, Range(names)) = GridSize % n
            /\ (n = GridSize /\ Cardinality(Range(names)) = n)
                    => \A v \in Range(names) : Count(v, sq) = 1

C3_Witness ==
    /\ Shown
    /\ Len(submitted[1]) = 3
    /\ Cardinality(Range(submitted[1])) = 2
    /\ \E v \in Range(submitted[1]) : Count(v, Squares(gridOutput)) = 67

\* C4: the table shows ten rows of ten cells, cell (row, col) the square
\* row * 10 + col, and every one of the 100 squares is a name of the list.
C4_FixedLength ==
    Shown =>
        /\ Len(gridOutput.table[3]) = Side
        /\ \A row \in 1..Side :
            /\ Len(gridOutput.table[3][row]) = Side
            /\ \A c \in 1..Side :
                /\ gridOutput.table[3][row][c] # Undefined
                /\ gridOutput.table[3][row][c] \in Range(submitted[1])
        /\ Side * Side = GridSize

C4_Witness ==
    /\ Shown
    /\ Len(submitted[1]) = 7
    /\ gridOutput.table[3][Side][Side] = gridOutput.share[1][2]

Reparsed(query) ==
    Only({ <<parseNames(f.names), parseInt(f.seed), Trim(f.colTeam), Trim(f.rowTeam)>>
           : f \in {LoadFields(query, Blank)} })

\* C1: the link built for a submission, decoded by the loader and parsed by
\* the submit handler, gives the submission's names in the order they were
\* supplied, its seed and its two team names.
C1_Claim == clipboard # <<>> => Reparsed(clipboard) = copied[1]

\* C2: the page opened at the link shows the squares that were shown when
\* the link was built.
C2_Claim ==
    (search # <<>> /\ search = clipboard) =>
        (Shown /\ Squares(gridOutput) = copied[2])

====
